---- MODULE Spec2Model ----
(***************************************************************************)
(* The POST /chat pipeline of the Emerald routing service, in its two      *)
(* variants:                                                               *)
(*   "root"    : src/main.py                                               *)
(*   "service" : src/emerald_service/main.py                               *)
(* A behaviour is one server process (one variant, one configuration of    *)
(* the process and of its collaborators) serving NumRequests requests.     *)
(* chat_endpoint is a coroutine that never awaits: the event loop runs one *)
(* call of it to completion before it starts the next, while time passes   *)
(* between its statements.                                                 *)
(* A second specification, SpecDecode, applies the response decoding of    *)
(* src/main.py lines 71-103 to a bounded set of agent responses.           *)
(***************************************************************************)
EXTENDS Integers, Sequences, FiniteSets, TLC

VARIABLES
    impl,                 \* which variant is deployed
    agent,                \* what the remote agent runtime does when it is invoked
    table,                \* module global `table`
    lambda_client,        \* module global `lambda_client`
    METRICS_LAMBDA_NAME,  \* module global METRICS_LAMBDA_NAME
    default_session_id,   \* the default of ChatRequest.session_id held by the class
    uuid_count,           \* how many uuid4() values the process has drawn
    now,                  \* time.time(), in milliseconds
    pc,                   \* position of each request in chat_endpoint
    request,              \* the validated ChatRequest of each request
    start_time,           \* local start_time
    agent_response_text,  \* local agent_response_text
    error_msg,            \* local error_msg
    status_code,          \* local status_code
    agt,                  \* outcome of the agent step of each request
    hist,                 \* outcome of the history step of each request
    met,                  \* outcome of the metrics step of each request
    items,                \* the rows of the DynamoDB table
    put_ok,               \* the items each request's put_item stored
    invoked,              \* the payloads each request handed to lambda_client.invoke
    http,                 \* HTTP status answered to each request (0: none yet)
    responses,            \* the ChatResponse bodies returned to each request
    raised,               \* the exception that left chat_endpoint, or None
    omitted,              \* whether the body of each request omitted session_id
    dec_in,               \* SpecDecode: the agent runtime's response
    dec_out               \* SpecDecode: the outcome of decoding it

config == <<impl, agent, table, lambda_client, METRICS_LAMBDA_NAME, default_session_id>>
locals == <<start_time, agent_response_text, error_msg, status_code>>
dec == <<dec_in, dec_out>>
vars == <<impl, agent, table, lambda_client, METRICS_LAMBDA_NAME, default_session_id,
          uuid_count, now, pc, request, start_time, agent_response_text, error_msg,
          status_code, agt, hist, met, items, put_ok, invoked, http, responses, raised,
          omitted, dec_in, dec_out>>

(***************************************************************************)
(* Bounds                                                                  *)
(***************************************************************************)
NumRequests == 2
MaxClock == 1

Requests == 1..NumRequests

(***************************************************************************)
(* Values                                                                  *)
(***************************************************************************)
\* Python's None, in the domain of strings
None == "<None>"

\* os.getenv("AWS_REGION", "us-east-1")
REGION == "us-east-1"

\* the n-th value drawn from uuid.uuid4(): distinct draws give distinct values
FreshIds == <<"uuid-1", "uuid-2", "uuid-3", "uuid-4", "uuid-5", "uuid-6">>
Uuid4(n) == FreshIds[n]

\* request bodies: a field is a string or absent
Absent == "<absent>"
GivenSessionIds == {"s1"}
Messages == {"hi"}
AgentIds == {"X"}
Bodies == [session_id : GivenSessionIds \cup {Absent},
           message : Messages \cup {Absent},
           agent_id : AgentIds \cup {Absent}]

\* what invoke_agent_runtime does when called: returns a response, raises a
\* botocore ClientError, or raises another exception; text is the text decoded
\* from the response (ParseAgentResponse) or str(e)
AgentBehaviours ==
    { [kind |-> "ok", text |-> "Simulated Agent Response"],
      [kind |-> "ClientError", text |-> "throttled"],
      [kind |-> "Exception", text |-> "boom"] }

\* what table.put_item does when called
StoreOutcomes == {"ok", "ClientError", "BotoCoreError"}
\* what lambda_client.invoke does when called
InvokeOutcomes == {"ok", "ClientError"}

(***************************************************************************)
(* Data models                                                             *)
(***************************************************************************)
\* the fields ChatRequest declares
ChatRequestFields == {"session_id", "message", "agent_id"}

\* pydantic's validation of the inbound body: message and agent_id are required
Valid(body) == body.message # Absent /\ body.agent_id # Absent

\* the session_id a body that omits it is given: the root variant's default is
\* the one value the class statement computed, the service variant's
\* default_factory draws a new uuid4 for every request
DefaultSessionId == IF impl = "root" THEN default_session_id ELSE Uuid4(uuid_count + 1)

ChatRequest(body) ==
    [session_id |-> IF body.session_id = Absent THEN DefaultSessionId ELSE body.session_id,
     message |-> body.message,
     agent_id |-> body.agent_id]

\* Python truthiness of an optional string or an optional client handle
Truthy(x) == x \notin {None, ""}

(***************************************************************************)
(* The agent step                                                          *)
(***************************************************************************)
\* src/main.py, the body of the try block of step 1: the log line reads
\* request.agent_alias_id before the runtime is invoked
RootAgentTry ==
    IF "agent_alias_id" \notin ChatRequestFields
    THEN [exc |-> "AttributeError", text |-> ""]
    ELSE IF agent.kind = "ok"
    THEN [exc |-> None, text |-> agent.text]
    ELSE [exc |-> agent.kind, text |-> agent.text]

\* src/main.py, the only handler of that try block: except ClientError
RootAgentOutcome ==
    LET t == RootAgentTry IN
    IF t.exc = "ClientError"
    THEN [exc |-> None, text |-> "Error invoking agent: " \o t.text]
    ELSE t

\* src/emerald_service/main.py: the invocation is commented out and the text
\* is assigned a literal
ServiceAgentText == "I'm an ai agent, not a doctor."

(***************************************************************************)
(* The history step                                                        *)
(***************************************************************************)
MsPerSecond == 1000

\* the item with the response text and the status as they were before step 1
HistoryItemBeforeAgent(r) ==
    [PK |-> "SESSION#" \o request[r].session_id,
     SK |-> "MSG#" \o ToString(now),
     UserMessage |-> request[r].message,
     AgentResponse |-> "",
     Region |-> REGION,
     AgentID |-> request[r].agent_id,
     Timestamp |-> now \div MsPerSecond,
     Status |-> Absent,
     Error |-> Absent]

HistoryItem(r) ==
    [PK |-> "SESSION#" \o request[r].session_id,
     SK |-> "MSG#" \o ToString(now),
     UserMessage |-> request[r].message,
     AgentResponse |-> agent_response_text[r],
     Region |-> REGION,
     AgentID |-> request[r].agent_id,
     Timestamp |-> now \div MsPerSecond,
     Status |-> IF impl = "service" THEN status_code[r] ELSE Absent,
     Error |-> IF impl = "service" /\ Truthy(error_msg[r]) THEN error_msg[r] ELSE Absent]

\* the table's primary key
Key(item) == <<item.PK, item.SK>>

\* DynamoDB PutItem: a new item, or the replacement of the item with the same key
PutItem(rows, item) == {i \in rows : Key(i) # Key(item)} \cup {item}

(***************************************************************************)
(* The metrics step                                                        *)
(***************************************************************************)
\* the guard with the test of METRICS_LAMBDA_NAME left out
MetricsEnabledClientOnly == Truthy(lambda_client)

MetricsEnabled == Truthy(lambda_client) /\ Truthy(METRICS_LAMBDA_NAME)

MetricPayload(r) ==
    [type |-> "chat_metric",
     session_id |-> request[r].session_id,
     agent_id |-> request[r].agent_id,
     latency |-> now - start_time[r],
     status |-> status_code[r],
     timestamp |-> now \div MsPerSecond]

(***************************************************************************)
(* The response                                                            *)
(***************************************************************************)
ChatResponse(r) ==
    IF impl = "service"
    THEN [session_id |-> request[r].session_id,
          response |-> agent_response_text[r],
          processing_time |-> now - start_time[r],
          region |-> REGION,
          status |-> status_code[r],
          error |-> error_msg[r]]
    ELSE [session_id |-> request[r].session_id,
          response |-> agent_response_text[r],
          processing_time |-> now - start_time[r],
          region |-> REGION]

(***************************************************************************)
(* Decoding the agent runtime's response (src/main.py, lines 71-103)       *)
(*                                                                         *)
(* A byte string is a sequence of bytes, a str a sequence of characters;   *)
(* an ASCII byte and its character are written as the same one-character   *)
(* string, and XFF is a byte that is not valid UTF-8.                      *)
(***************************************************************************)
MaxBody == 2

XFF == "<0xff>"
LF == "\n"

RECURSIVE Flatten(_)
Flatten(ss) == IF ss = <<>> THEN <<>> ELSE Head(ss) \o Flatten(Tail(ss))

\* bytes.decode("utf-8"): raises UnicodeDecodeError on an invalid byte
DecodeStrict(bs) ==
    IF \E i \in 1..Len(bs) : bs[i] = XFF
    THEN [exc |-> "UnicodeDecodeError", text |-> <<>>]
    ELSE [exc |-> None, text |-> bs]

\* bytes.decode("utf-8", errors="ignore"): drops the invalid bytes
DecodeIgnore(bs) == SelectSeq(bs, LAMBDA b : b # XFF)

\* StreamingBody.iter_lines(): the lines of the body, without their line ends
RECURSIVE IterLines(_)
IterLines(bs) ==
    IF bs = <<>> THEN <<>>
    ELSE LET ends == {i \in 1..Len(bs) : bs[i] = LF} IN
         IF ends = {} THEN <<bs>>
         ELSE LET e == CHOOSE i \in ends : \A j \in ends : i <= j IN
              <<SubSeq(bs, 1, e - 1)>> \o IterLines(SubSeq(bs, e + 1, Len(bs)))

\* str.startswith
StartsWith(str, prefix) ==
    Len(str) >= Len(prefix) /\ SubSeq(str, 1, Len(prefix)) = prefix

DataPrefix == <<"d", "a", "t", "a", ":", " ">>

\* the loop over the event stream: empty lines are skipped, every other line is
\* decoded, and what follows "data: " is appended to the text
RECURSIVE EventStreamText(_, _)
EventStreamText(lines, acc) ==
    IF lines = <<>> THEN [exc |-> None, text |-> acc]
    ELSE IF Head(lines) = <<>> THEN EventStreamText(Tail(lines), acc)
    ELSE LET d == DecodeStrict(Head(lines)) IN
         IF d.exc # None THEN d
         ELSE IF StartsWith(d.text, DataPrefix)
         THEN EventStreamText(Tail(lines),
                              acc \o SubSeq(d.text, Len(DataPrefix) + 1, Len(d.text)))
         ELSE EventStreamText(Tail(lines), acc)

\* json.loads, for the documents that the characters of BodyAlphabet and of the
\* event samples can spell: integers written with the digit 1 and arrays of
\* them, with white space between the tokens. A value is [t, digits, elems].
JsonSpace == {" ", LF}

RECURSIVE SkipSpace(_)
SkipSpace(str) ==
    IF str # <<>> /\ Head(str) \in JsonSpace THEN SkipSpace(Tail(str)) ELSE str

RECURSIVE TakeDigits(_)
TakeDigits(str) ==
    IF str # <<>> /\ Head(str) = "1" THEN <<"1">> \o TakeDigits(Tail(str)) ELSE <<>>

JsonFail == [ok |-> FALSE, val |-> [t |-> "none", digits |-> <<>>, elems |-> <<>>], rest |-> <<>>]

RECURSIVE JsonValue(_)
RECURSIVE JsonElements(_, _)
\* one value at the head of str (after white space), and what follows it
JsonValue(str) ==
    LET s0 == SkipSpace(str) IN
    IF s0 = <<>> THEN JsonFail
    ELSE IF Head(s0) = "1"
    THEN LET ds == TakeDigits(s0) IN
         [ok |-> TRUE, val |-> [t |-> "int", digits |-> ds, elems |-> <<>>],
          rest |-> SubSeq(s0, Len(ds) + 1, Len(s0))]
    ELSE IF Head(s0) = "["
    THEN LET s1 == SkipSpace(Tail(s0)) IN
         IF s1 # <<>> /\ Head(s1) = "]"
         THEN [ok |-> TRUE, val |-> [t |-> "list", digits |-> <<>>, elems |-> <<>>],
               rest |-> Tail(s1)]
         ELSE JsonElements(s1, <<>>)
    ELSE JsonFail
\* the elements of an array after its "[", up to its "]"
JsonElements(str, acc) ==
    LET v == JsonValue(str) IN
    IF ~v.ok THEN JsonFail
    ELSE LET s1 == SkipSpace(v.rest) IN
         IF s1 = <<>> THEN JsonFail
         ELSE IF Head(s1) = "]"
         THEN [ok |-> TRUE,
               val |-> [t |-> "list", digits |-> <<>>, elems |-> Append(acc, v.val)],
               rest |-> Tail(s1)]
         ELSE IF Head(s1) = ","
         THEN JsonElements(Tail(s1), Append(acc, v.val))
         ELSE JsonFail

\* json.loads(str): the whole of str is one value, or JSONDecodeError
JsonLoads(str) ==
    LET v == JsonValue(str) IN
    IF v.ok /\ SkipSpace(v.rest) = <<>> THEN v ELSE JsonFail

\* json.dumps(value), with its default separators
RECURSIVE JsonDumps(_)
RECURSIVE JsonDumpsElements(_)
JsonDumps(val) ==
    IF val.t = "int" THEN val.digits
    ELSE <<"[">> \o JsonDumpsElements(val.elems) \o <<"]">>
JsonDumpsElements(elems) ==
    IF elems = <<>> THEN <<>>
    ELSE IF Len(elems) = 1 THEN JsonDumps(elems[1])
    ELSE JsonDumps(elems[1]) \o <<",", " ">> \o JsonDumpsElements(Tail(elems))

\* the chunks a StreamingBody yields when it is iterated
IterChunks(bs) == IF bs = <<>> THEN <<>> ELSE <<bs>>

\* str(raw) of a StreamingBody: the default repr of the object
StreamingBodyRepr == <<"<botocore.response.StreamingBody object>">>

\* the value of response.get("contentType", "") when the key is missing
NoContentType == ""
\* the content types that contain "text/event-stream"
EventStreamTypes == {"text/event-stream", "text/event-stream; charset=utf-8"}
ApplicationJson == "application/json"
ContentTypes == EventStreamTypes \cup {NoContentType, ApplicationJson, "application/octet-stream"}

\* lines 72-103: the text extracted from the response of invoke_agent_runtime,
\* or the exception that leaves the block
ParseAgentResponse(response) ==
    IF response.contentType \in EventStreamTypes
    THEN EventStreamText(IterLines(response.body), <<>>)
    ELSE IF response.contentType = ApplicationJson
    THEN LET joined == DecodeStrict(Flatten(IterChunks(response.body))) IN
         IF joined.exc # None THEN joined
         ELSE LET parsed == JsonLoads(joined.text) IN
              IF parsed.ok
              THEN [exc |-> None, text |-> JsonDumps(parsed.val)]
              ELSE [exc |-> None, text |-> joined.text]
    ELSE IF response.kind = "bytes"
    THEN [exc |-> None, text |-> DecodeIgnore(response.body)]
    ELSE [exc |-> None, text |-> StreamingBodyRepr]

\* the bodies the decoding is applied to
BodyAlphabet == {"1", "[", "]", LF, XFF}

RECURSIVE SeqsUpTo(_, _)
SeqsUpTo(S, n) ==
    IF n = 0 THEN {<<>>}
    ELSE LET shorter == SeqsUpTo(S, n - 1) IN
         shorter \cup {Append(q, x) : q \in shorter, x \in S}

EventSamples ==
    { DataPrefix \o <<"h", "i">>,
      DataPrefix \o <<"h", LF, LF>> \o DataPrefix \o <<"i", LF>>,
      <<":", " ", "h", LF>> \o DataPrefix,
      DataPrefix \o <<XFF>>,
      <<"[", "1", ",", " ", "1", "1", "]">>,
      <<" ", "[", "[", "]", ",", "1", "]", LF>>,
      <<"[", "1", ",", "]">>,
      <<"1", " ", "1">> }

ResponseBodies == SeqsUpTo(BodyAlphabet, MaxBody) \cup EventSamples

\* the client returns the payload as a StreamingBody
AgentResponses ==
    [contentType : ContentTypes,
     kind : {"StreamingBody"},
     body : ResponseBodies]

NoAgentResponse == [contentType |-> NoContentType, kind |-> "StreamingBody", body |-> <<>>]
NotDecoded == [done |-> FALSE, exc |-> None, text |-> <<>>]

(***************************************************************************)
(* Initial states                                                          *)
(***************************************************************************)
NoRequest == [session_id |-> None, message |-> None, agent_id |-> None]

Init ==
    /\ impl \in {"root", "service"}
    /\ agent \in AgentBehaviours
    \* root: the table handle always exists; service: None when its
    \* construction failed
    /\ table \in IF impl = "root" THEN {"Table"} ELSE {None, "Table"}
    /\ lambda_client \in IF impl = "root" THEN {None} ELSE {None, "lambda"}
    /\ METRICS_LAMBDA_NAME \in IF impl = "root" THEN {None} ELSE {None, "metrics-fn"}
    \* root: the class statement called uuid4() once
    /\ default_session_id = IF impl = "root" THEN Uuid4(1) ELSE None
    /\ uuid_count = IF impl = "root" THEN 1 ELSE 0
    /\ now = 0
    /\ pc = [r \in Requests |-> "idle"]
    /\ omitted = [r \in Requests |-> FALSE]
    /\ request = [r \in Requests |-> NoRequest]
    /\ start_time = [r \in Requests |-> 0]
    /\ agent_response_text = [r \in Requests |-> ""]
    /\ error_msg = [r \in Requests |-> None]
    /\ status_code = [r \in Requests |-> None]
    /\ agt = [r \in Requests |-> "pending"]
    /\ hist = [r \in Requests |-> "pending"]
    /\ met = [r \in Requests |-> "pending"]
    /\ items = {}
    /\ put_ok = [r \in Requests |-> {}]
    /\ invoked = [r \in Requests |-> {}]
    /\ http = [r \in Requests |-> 0]
    /\ responses = [r \in Requests |-> {}]
    /\ raised = [r \in Requests |-> None]
    /\ dec_in = NoAgentResponse
    /\ dec_out = NotDecoded

(***************************************************************************)
(* Actions                                                                 *)
(***************************************************************************)
\* time passes
Tick ==
    /\ now < MaxClock
    /\ now' = now + 1
    /\ UNCHANGED <<config, uuid_count, pc, request, locals, agt, hist, met, items, put_ok,
                   invoked, http, responses, raised, omitted, dec>>

\* a call of chat_endpoint is on the event loop
Running(q) == pc[q] \in {"agent", "history", "metrics", "return"}

\* an exception leaves chat_endpoint: the framework answers 500
Escape(r, exc) ==
    /\ pc' = [pc EXCEPT ![r] = "escaped"]
    /\ raised' = [raised EXCEPT ![r] = exc]
    /\ http' = [http EXCEPT ![r] = 500]

\* POST /chat arrives: validation, the session_id default, and the handler's
\* first statements
Receive(r, body) ==
    /\ pc[r] = "idle"
    /\ \A q \in Requests : ~Running(q)
    /\ IF Valid(body)
       THEN /\ omitted' = [omitted EXCEPT ![r] = (body.session_id = Absent)]
            /\ request' = [request EXCEPT ![r] = ChatRequest(body)]
            /\ uuid_count' = IF body.session_id = Absent /\ impl = "service"
                             THEN uuid_count + 1 ELSE uuid_count
            /\ start_time' = [start_time EXCEPT ![r] = now]
            /\ agent_response_text' = [agent_response_text EXCEPT ![r] = ""]
            /\ error_msg' = [error_msg EXCEPT ![r] = None]
            /\ status_code' = [status_code EXCEPT ![r] =
                                  IF impl = "service" THEN "success" ELSE None]
            /\ pc' = [pc EXCEPT ![r] = "agent"]
            /\ http' = http
       ELSE /\ pc' = [pc EXCEPT ![r] = "rejected"]
            /\ http' = [http EXCEPT ![r] = 422]
            /\ UNCHANGED <<request, uuid_count, locals, omitted>>
    /\ UNCHANGED <<config, now, agt, hist, met, items, put_ok, invoked, responses, raised, dec>>

\* step 1
AgentStep(r) ==
    /\ pc[r] = "agent"
    /\ IF impl = "root"
       THEN LET o == RootAgentOutcome IN
            /\ agt' = [agt EXCEPT ![r] = IF RootAgentTry.exc = None THEN "ok" ELSE "failed"]
            /\ IF o.exc = None
               THEN /\ agent_response_text' = [agent_response_text EXCEPT ![r] = o.text]
                    /\ pc' = [pc EXCEPT ![r] = "history"]
                    /\ UNCHANGED <<raised, http>>
               ELSE /\ Escape(r, o.exc)
                    /\ UNCHANGED agent_response_text
       ELSE /\ agt' = [agt EXCEPT ![r] = "ok"]
            /\ agent_response_text' = [agent_response_text EXCEPT ![r] = ServiceAgentText]
            /\ pc' = [pc EXCEPT ![r] = "history"]
            /\ UNCHANGED <<raised, http>>
    /\ UNCHANGED <<config, uuid_count, now, request, start_time, error_msg, status_code,
                   hist, met, items, put_ok, invoked, responses, omitted, dec>>

\* step 2
HistoryStep(r, outcome) ==
    /\ pc[r] = "history"
    /\ IF impl = "service" /\ ~Truthy(table)
       THEN /\ hist' = [hist EXCEPT ![r] = "skipped"]
            /\ pc' = [pc EXCEPT ![r] = "metrics"]
            /\ UNCHANGED <<items, put_ok, raised, http>>
       ELSE IF outcome = "ok"
       THEN /\ items' = PutItem(items, HistoryItem(r))
            /\ put_ok' = [put_ok EXCEPT ![r] = @ \cup {HistoryItem(r)}]
            /\ hist' = [hist EXCEPT ![r] = "ok"]
            /\ pc' = [pc EXCEPT ![r] = IF impl = "service" THEN "metrics" ELSE "return"]
            /\ UNCHANGED <<raised, http>>
       ELSE /\ hist' = [hist EXCEPT ![r] = "failed"]
            /\ UNCHANGED <<items, put_ok>>
            /\ IF impl = "service"
               THEN /\ pc' = [pc EXCEPT ![r] = "metrics"]
                    /\ UNCHANGED <<raised, http>>
               ELSE Escape(r, IF outcome = "ClientError" THEN "HTTPException" ELSE outcome)
    /\ UNCHANGED <<config, uuid_count, now, request, locals, agt, met, invoked, responses,
                   omitted, dec>>

\* step 3 (service variant only)
MetricsStep(r, outcome) ==
    /\ pc[r] = "metrics"
    /\ IF MetricsEnabled
       THEN IF outcome = "ok"
            THEN /\ invoked' = [invoked EXCEPT ![r] = @ \cup {MetricPayload(r)}]
                 /\ met' = [met EXCEPT ![r] = "ok"]
            ELSE /\ met' = [met EXCEPT ![r] = "failed"]
                 /\ UNCHANGED invoked
       ELSE /\ met' = [met EXCEPT ![r] = "skipped"]
            /\ UNCHANGED invoked
    /\ pc' = [pc EXCEPT ![r] = "return"]
    /\ UNCHANGED <<config, uuid_count, now, request, locals, agt, hist, items, put_ok,
                   http, responses, raised, omitted, dec>>

\* the return statement
Return(r) ==
    /\ pc[r] = "return"
    /\ responses' = [responses EXCEPT ![r] = @ \cup {ChatResponse(r)}]
    /\ http' = [http EXCEPT ![r] = 200]
    /\ pc' = [pc EXCEPT ![r] = "done"]
    /\ UNCHANGED <<config, uuid_count, now, request, locals, agt, hist, met, items, put_ok,
                   invoked, raised, omitted, dec>>

Next ==
    \/ Tick
    \/ \E r \in Requests, body \in Bodies : Receive(r, body)
    \/ \E r \in Requests : AgentStep(r)
    \/ \E r \in Requests, outcome \in StoreOutcomes : HistoryStep(r, outcome)
    \/ \E r \in Requests, outcome \in InvokeOutcomes : MetricsStep(r, outcome)
    \/ \E r \in Requests : Return(r)

Spec == Init /\ [][Next]_vars

(***************************************************************************)
(* SpecDecode: the decoding applied to each response of AgentResponses     *)
(***************************************************************************)
InitDecode ==
    /\ impl = "root"
    /\ agent = [kind |-> "ok", text |-> "Simulated Agent Response"]
    /\ table = "Table"
    /\ lambda_client = None
    /\ METRICS_LAMBDA_NAME = None
    /\ default_session_id = Uuid4(1)
    /\ uuid_count = 1
    /\ now = 0
    /\ pc = [r \in Requests |-> "idle"]
    /\ omitted = [r \in Requests |-> FALSE]
    /\ request = [r \in Requests |-> NoRequest]
    /\ start_time = [r \in Requests |-> 0]
    /\ agent_response_text = [r \in Requests |-> ""]
    /\ error_msg = [r \in Requests |-> None]
    /\ status_code = [r \in Requests |-> None]
    /\ agt = [r \in Requests |-> "pending"]
    /\ hist = [r \in Requests |-> "pending"]
    /\ met = [r \in Requests |-> "pending"]
    /\ items = {}
    /\ put_ok = [r \in Requests |-> {}]
    /\ invoked = [r \in Requests |-> {}]
    /\ http = [r \in Requests |-> 0]
    /\ responses = [r \in Requests |-> {}]
    /\ raised = [r \in Requests |-> None]
    /\ dec_in \in AgentResponses
    /\ dec_out = NotDecoded

Decode ==
    /\ ~dec_out.done
    /\ dec_out' = [done |-> TRUE,
                   exc |-> ParseAgentResponse(dec_in).exc,
                   text |-> ParseAgentResponse(dec_in).text]
    /\ UNCHANGED <<config, uuid_count, now, pc, request, locals, agt, hist, met, items, put_ok,
                   invoked, http, responses, raised, omitted, dec_in>>

NextDecode == Decode

SpecDecode == InitDecode /\ [][NextDecode]_vars

(***************************************************************************)
(* Properties                                                              *)
(***************************************************************************)
Accepted(r) == pc[r] \notin {"idle", "rejected"}
Finished(r) == pc[r] \in {"done", "escaped"}
HasStatus(resp) == "status" \in DOMAIN resp

\* C1: every accepted request that has been handled got exactly one
\* ChatResponse, and no request stores more than one HistoryRecord or submits
\* more than one MetricEvent, whatever the agent, the store and the metrics
\* function did.
C1_ExactlyOneResponse ==
    \A r \in Requests :
        /\ Cardinality(responses[r]) <= 1
        /\ Cardinality(put_ok[r]) <= 1
        /\ Cardinality(invoked[r]) <= 1
        /\ (Accepted(r) /\ Finished(r)) => Cardinality(responses[r]) = 1

\* C2: when the agent step of a request failed, with whatever exception, the
\* request ends with a ChatResponse of status "error" and a non-empty error,
\* and no exception leaves the handler.
C2_AgentFailureIsAnErrorResponse ==
    \A r \in Requests :
        (Finished(r) /\ agt[r] = "failed") =>
            /\ raised[r] = None
            /\ \E resp \in responses[r] :
                   HasStatus(resp) /\ resp.status = "error" /\ Truthy(resp.error)

\* C3: when the agent answers and the history write of a request failed, the
\* request is answered 200 with status "success" and the agent's text, and no
\* error.
C3_HistoryFailureIsInvisible ==
    \A r \in Requests :
        (Finished(r) /\ agent.kind = "ok" /\ hist[r] = "failed") =>
            /\ http[r] = 200
            /\ \E resp \in responses[r] :
                   /\ HasStatus(resp)
                   /\ resp.status = "success"
                   /\ resp.response = agent.text
                   /\ resp.error = None

\* C4: two requests that omitted session_id never have the same session_id,
\* and the session_id of such a request is not empty.
C4_FreshSessionIds ==
    \A r, q \in Requests :
        (Accepted(r) /\ omitted[r]) =>
            /\ request[r].session_id # ""
            /\ (q # r /\ Accepted(q) /\ omitted[q]) =>
                   request[r].session_id # request[q].session_id

\* C5: when the agent client raises a ClientError of description d, a handled
\* request got the response with status "error", error d and the text
\* "Error invoking agent: " followed by d.
C5_ClientErrorResponse ==
    \A r \in Requests :
        (Accepted(r) /\ Finished(r) /\ agent.kind = "ClientError") =>
            \E resp \in responses[r] :
                /\ HasStatus(resp)
                /\ resp.status = "error"
                /\ resp.error = agent.text
                /\ resp.response = "Error invoking agent: " \o agent.text

\* C6: with no metrics function name configured, lambda_client.invoke is never
\* called for any request, no exception leaves the handler, and a handled
\* request got its one response with status "success" and no error.
C6_NoDestinationNoSubmit ==
    (impl = "service" /\ ~Truthy(METRICS_LAMBDA_NAME)) =>
        \A r \in Requests :
            /\ invoked[r] = {}
            /\ met[r] \in {"pending", "skipped"}
            /\ raised[r] = None
            /\ pc[r] = "done" =>
                   /\ Cardinality(responses[r]) = 1
                   /\ \A resp \in responses[r] :
                          resp.status = "success" /\ resp.error = None

\* a request was handled by a process that has a Lambda client and no function
\* name
C6_Witness ==
    /\ impl = "service"
    /\ ~Truthy(METRICS_LAMBDA_NAME)
    /\ Truthy(lambda_client)
    /\ \E r \in Requests : pc[r] = "done" /\ met[r] = "skipped" /\ hist[r] = "failed"

\* C7: decoding a response whose body is empty raises nothing and gives the
\* empty text, whatever its content type.
C7_EmptyBodyEmptyText ==
    (dec_out.done /\ dec_in.body = <<>>) =>
        dec_out.exc = None /\ dec_out.text = <<>>

\* C8: the history step of a request is taken only after its agent step has
\* an outcome, its metrics step only after its history step has one, its
\* response is returned only after its metrics step has one, and a handled
\* request has taken its history and metrics steps whatever failed before.
C8_StepOrder ==
    \A r \in Requests :
        /\ hist[r] # "pending" => agt[r] # "pending"
        /\ met[r] # "pending" => hist[r] # "pending"
        /\ responses[r] # {} => met[r] # "pending"
        /\ (Accepted(r) /\ Finished(r)) => (hist[r] # "pending" /\ met[r] # "pending")

\* C9: the table holds one row for every request whose put_item succeeded.
C9_OneRowPerTurn ==
    Cardinality(items) = Cardinality({r \in Requests : put_ok[r] # {}})

\* C10: the status, the response text and the presence of an error in the item
\* a request stored, and the status in the metric event it submitted, are
\* those of the ChatResponse it was answered with.
C10_RecordMatchesResponse ==
    \A r \in Requests :
        \A resp \in responses[r] :
            /\ \A item \in put_ok[r] :
                   /\ item.Status = resp.status
                   /\ item.AgentResponse = resp.response
                   /\ (item.Error # Absent) <=> Truthy(resp.error)
            /\ \A ev \in invoked[r] : ev.status = resp.status

\* a request was answered after it stored its item and submitted its event
C10_Witness ==
    \E r \in Requests :
        pc[r] = "done" /\ responses[r] # {} /\ put_ok[r] # {} /\ invoked[r] # {}

====
